---- MODULE Spec2Model ----
(***************************************************************************)
(* Entity resolution and knowledge-graph ingestion of the Notion ingestor. *)
(*                                                                         *)
(* The model follows src/notion.py (NotionScript) and src/main.py, whose   *)
(* get_or_create_entity / create_media / create_snippet are the same code  *)
(* over a process-wide client.  Execution is sequential; the granularity   *)
(* of a step is one store call (data_sources.query or pages.create) and    *)
(* the code that runs up to the next store call.  The store is an external *)
(* collaborator: every call returns or raises nondeterministically.        *)
(*                                                                         *)
(* Strings that the code strips are sequences of one-character strings;    *)
(* record IDs are positive integers and Python's None is the value None.   *)
(* The logging calls inside the exception handlers are taken to succeed.   *)
(***************************************************************************)
EXTENDS Integers, Sequences, FiniteSets, TLC

VARIABLES
    cache,      \* functools.cache table of get_or_create_entity: argument -> result
    pc,         \* control point of the (single) thread
    inv,        \* the top-level invocation in progress, or the last one completed
    goe,        \* activation record of get_or_create_entity
    snip,       \* activation record of create_snippet
    media,      \* activation record of create_media
    ret,        \* value handed back by the most recent return
    raised,     \* TRUE while an exception propagates out of create_snippet
    nextId,     \* next record ID the store assigns
    ninv,       \* number of top-level invocations started in this run
    nres,       \* number of get_or_create_entity calls made in this run
    faults,     \* number of store calls that have failed in this run
    issued,     \* history: store calls of the current top-level invocation, by kind
    queriesFor, \* history: raw argument -> entity queries issued while resolving it
    createsFor, \* history: raw argument -> entity creates issued while resolving it
    resolved,   \* history: raw argument -> completed get_or_create_entity calls (up to 2)
    returned,   \* history: raw argument -> set of values those calls returned
    thread,     \* SpecRace: activation of get_or_create_entity in each thread
    table,      \* SpecRace: the entity records of the store, in creation order
    overlapped, \* SpecRace history: a call began while another was in progress
    text,       \* SpecText: the text handed to the payload builders
    built,      \* SpecText: the title and body blocks built from text
    mainpy      \* SpecEquiv: the state of the module-level variant of main.py

auxVars == <<thread, table, overlapped, text, built, mainpy>>

vars == <<cache, pc, inv, goe, snip, media, ret, raised, nextId, ninv, nres,
          faults, issued, queriesFor, createsFor, resolved, returned, auxVars>>

-----------------------------------------------------------------------------
(* Bounds of the model *)

MaxCalls == 2        \* top-level invocations per run
MaxSnippets == 2     \* snippets per document
MaxEntities == 2     \* entity names per snippet
MaxNames == 2        \* names resolved per run, over all callers
MaxFaults == 2       \* failing store calls per run
MaxThreads == 2      \* threads calling the resolver in SpecRace
MaxTextLen == 7      \* characters of a text in SpecText
ChunkSize == 3       \* chunk_size of prepare_summary_blocks, scaled down from 1900

-----------------------------------------------------------------------------
(* Values *)

None == 0
Absent == -1
NoneStr == "None"

Whitespace == {" "}

Names ==
    { <<>>, <<" ">>, <<"A">>, <<" ", "A", " ">>, <<"a">> }

ExistingIds == {1, 2}

QueryResults == { <<>>, <<1>>, <<2, 1>> }

APIResponseError == {"validation_error", "api_error"}

StoreErrors == APIResponseError \cup {"error"}

EventDates ==
    { [human_readable |-> NoneStr, date_start_iso |-> NoneStr, date_end_iso |-> NoneStr],
      [human_readable |-> "May 2024", date_start_iso |-> "2024-05-01",
       date_end_iso |-> "2024-05-02"],
      [human_readable |-> "null", date_start_iso |-> "2024-13-40",
       date_end_iso |-> "Null"] }

SeqsUpTo(S, n) == UNION { [1..k -> S] : k \in 0..n }

Snippets == [entities : SeqsUpTo(Names, MaxEntities), event_date : EventDates]

\* A document: the loop of create_media reads extracted_snippets front to back
\* and never looks ahead, so the model fixes their number at the call and draws
\* each snippet when the loop reaches it.
Documents == [channel_name : Names, nsnippets : 0..MaxSnippets]

-----------------------------------------------------------------------------
(* Pure helpers *)

RECURSIVE lstrip(_)
lstrip(s) ==
    IF s # <<>> /\ Head(s) \in Whitespace THEN lstrip(Tail(s)) ELSE s

RECURSIVE rstrip(_)
rstrip(s) ==
    IF s # <<>> /\ s[Len(s)] \in Whitespace THEN rstrip(SubSeq(s, 1, Len(s) - 1)) ELSE s

strip_Identity(s) == s

strip(s) == rstrip(lstrip(s))

\* Python truth of an ID-or-None value, and of an optional string.
Truthy(v) == v # None

TruthyStr(v) == v # NoneStr /\ v # ""

\* The optional properties create_snippet adds to the payload.
OptionalProperties(event_date) ==
    (IF TruthyStr(event_date.human_readable) THEN {"Event Date"} ELSE {})
    \cup (IF TruthyStr(event_date.date_start_iso) THEN {"Start Date"} ELSE {})
    \cup (IF TruthyStr(event_date.date_end_iso) THEN {"End Date"} ELSE {})

\* The value each of them is given: the field of event_date, as it is.
OptionalValues(event_date) ==
    [p \in OptionalProperties(event_date) |->
        CASE p = "Event Date" -> event_date.human_readable
          [] p = "Start Date" -> event_date.date_start_iso
          [] p = "End Date" -> event_date.date_end_iso]

\* The shape of one store call; each call site fills in its payload.
\*   name:     the name filtered on (query) or written (entity create)
\*   relation: Author/Creator of a media create, Entities of a note create
\*   source:   Source relation of a note create
\*   props:    the optional properties present in a note create payload
\*   values:   the value of each of them
\*   result:   the IDs returned (query results, or the ID of the created record)
StoreCall ==
    [op |-> "", table |-> "", name |-> <<>>, status |-> "", relation |-> <<>>,
     source |-> None, props |-> {}, values |-> <<>>, outcome |-> "ok", result |-> <<>>]

\* Activation records; calls is the list of store calls the activation issued.
NoGoe == [arg |-> <<>>, name |-> <<>>, caller |-> "none", calls |-> <<>>]

NoSnip ==
    [snippet |-> [entities |-> <<>>, event_date |-> CHOOSE e \in EventDates : TRUE],
     media_source |-> None, entities |-> <<>>, idx |-> 0, caller |-> "none",
     calls |-> <<>>, results |-> <<>>]

NoMedia ==
    [data |-> [channel_name |-> <<>>, nsnippets |-> 0],
     entity_id |-> None, page_id |-> None, idx |-> 0, calls |-> <<>>,
     attempts |-> <<>>]

NoneIssued == [query |-> 0, entity |-> 0, media |-> 0, note |-> 0]

Threads == 1..MaxThreads

NoThread == [pc |-> "idle", arg |-> <<>>, name |-> <<>>, ret |-> None]

NoBuilt == [kind |-> "none", title |-> <<>>, children |-> <<>>]

\* main.py after import: the process-wide cache is empty and nothing runs.
NoMain ==
    [cache |-> [n \in Names |-> Absent], pc |-> "idle", goe |-> NoGoe,
     snip |-> NoSnip, media |-> NoMedia, ret |-> None, raised |-> FALSE,
     result |-> [state |-> "returned", ret |-> None]]

-----------------------------------------------------------------------------
InitMain ==
    /\ cache = [n \in Names |-> Absent]
    /\ pc = "idle"
    /\ inv = [op |-> "none", state |-> "returned", ret |-> None]
    /\ goe = NoGoe
    /\ snip = NoSnip
    /\ media = NoMedia
    /\ ret = None
    /\ raised = FALSE
    /\ nextId = Cardinality(ExistingIds) + 1
    /\ ninv = 0
    /\ nres = 0
    /\ faults = 0
    /\ issued = NoneIssued
    /\ queriesFor = [n \in Names |-> 0]
    /\ createsFor = [n \in Names |-> 0]
    /\ resolved = [n \in Names |-> 0]
    /\ returned = [n \in Names |-> {}]
    /\ mainpy = NoMain

InitRace ==
    /\ thread = [t \in Threads |-> NoThread]
    /\ table = <<>>
    /\ overlapped = FALSE

Init ==
    /\ InitMain
    /\ InitRace
    /\ text = <<>>
    /\ built = NoBuilt

-----------------------------------------------------------------------------
(* Call and return plumbing *)

frames == <<goe, snip, media>>
history == <<queriesFor, createsFor, resolved, returned>>

\* functools.cache keys an entry by the arguments of the call, as passed.
CacheKey(arg) == arg

CacheHit_Never(arg) == FALSE

CacheHit(arg) == cache[CacheKey(arg)] # Absent

\* The lookup found something: response["results"] is not empty.
Found_Never(results) == FALSE

Found(results) == results # <<>>

\* The record a non-empty query response resolves to.
FirstMatch_Last(results) == results[Len(results)]

FirstMatch(results) == results[1]

\* The properties of a new entity record.
EntityProperties_NoStatus(name) == [name |-> name, status |-> ""]

EntityProperties(name) == [name |-> name, status |-> "Inbox"]

\* A store call may fail only while the run's fault budget lasts.
MayFail == faults < MaxFaults

\* Enter the functools.cache wrapper of get_or_create_entity.
CallResolver(arg, caller) ==
    /\ nres' = nres + 1
    /\ goe' = [arg |-> arg, name |-> arg, caller |-> caller, calls |-> <<>>]
    /\ pc' = "goe_call"

\* The wrapper hands v back to the caller.
WrapperReturn(v) ==
    /\ ret' = v
    /\ pc' = "goe_ret"
    /\ resolved' = [resolved EXCEPT ![goe.arg] = IF @ < 2 THEN @ + 1 ELSE @]
    /\ returned' = [returned EXCEPT ![goe.arg] = @ \cup {v}]

BodyReturn_SkipNone(v) ==
    /\ cache' = IF v = None THEN cache ELSE [cache EXCEPT ![CacheKey(goe.arg)] = v]
    /\ WrapperReturn(v)

\* The body returns v: the wrapper memoizes it under the call's key.
BodyReturn(v) ==
    /\ cache' = [cache EXCEPT ![CacheKey(goe.arg)] = v]
    /\ WrapperReturn(v)

\* Enter create_snippet.
CallSnippet(snippet, media_source, caller) ==
    /\ snip' = [snippet |-> snippet, media_source |-> media_source,
                entities |-> <<>>, idx |-> 1, caller |-> caller,
                calls |-> <<>>, results |-> <<>>]
    /\ pc' = "snip_for"

\* The snippets whose names the run can still resolve.
NextSnippets == { s \in Snippets : nres + Len(s.entities) <= MaxNames }

-----------------------------------------------------------------------------
(* get_or_create_entity *)

\* The cache wrapper, and on a miss the body up to its first store call.
get_or_create_entity ==
    /\ pc = "goe_call"
    /\ IF CacheHit(goe.arg)
       THEN /\ WrapperReturn(cache[CacheKey(goe.arg)])
            /\ UNCHANGED <<cache, goe>>
       ELSE IF strip(goe.arg) = <<>>
       THEN /\ BodyReturn(None)
            /\ UNCHANGED goe
       ELSE /\ goe' = [goe EXCEPT !.name = strip(goe.arg)]
            /\ pc' = "goe_query"
            /\ UNCHANGED <<cache, ret, resolved, returned>>
    /\ UNCHANGED <<inv, snip, media, raised, nextId, ninv, nres, faults, issued,
                   queriesFor, createsFor>>
    /\ UNCHANGED auxVars

\* data_sources.query with the compound Aliases/Name filter.
get_or_create_entity_query ==
    /\ pc = "goe_query"
    /\ queriesFor' = [queriesFor EXCEPT ![goe.arg] = @ + 1]
    /\ issued' = [issued EXCEPT !.query = @ + 1]
    /\ LET request == [StoreCall EXCEPT !.op = "query", !.table = "entities",
                          !.name = goe.name]
       IN \/ \E results \in QueryResults :
               /\ goe' = [goe EXCEPT !.calls =
                            Append(@, [request EXCEPT !.result = results])]
               /\ IF Found(results)
                  THEN BodyReturn(FirstMatch(results))
                  ELSE /\ pc' = "goe_create"
                       /\ UNCHANGED <<cache, ret, resolved, returned>>
               /\ UNCHANGED faults
          \/ \E e \in StoreErrors :
               /\ MayFail
               /\ faults' = faults + 1
               /\ goe' = [goe EXCEPT !.calls =
                            Append(@, [request EXCEPT !.outcome = e])]
               /\ pc' = "goe_create"
               /\ UNCHANGED <<cache, ret, resolved, returned>>
    /\ UNCHANGED <<inv, snip, media, raised, nextId, ninv, nres, createsFor>>
    /\ UNCHANGED auxVars

\* pages.create of the entity record.
get_or_create_entity_create ==
    /\ pc = "goe_create"
    /\ createsFor' = [createsFor EXCEPT ![goe.arg] = @ + 1]
    /\ issued' = [issued EXCEPT !.entity = @ + 1]
    /\ LET request == [StoreCall EXCEPT !.op = "create", !.table = "entities",
                          !.name = EntityProperties(goe.name).name,
                          !.status = EntityProperties(goe.name).status]
       IN \/ /\ goe' = [goe EXCEPT !.calls =
                          Append(@, [request EXCEPT !.result = <<nextId>>])]
             /\ nextId' = nextId + 1
             /\ BodyReturn(nextId)
             /\ UNCHANGED faults
          \/ \E e \in StoreErrors :
               /\ MayFail
               /\ faults' = faults + 1
               /\ goe' = [goe EXCEPT !.calls =
                            Append(@, [request EXCEPT !.outcome = e])]
               /\ BodyReturn(None)
               /\ UNCHANGED nextId
    /\ UNCHANGED <<inv, snip, media, raised, ninv, nres, queriesFor>>
    /\ UNCHANGED auxVars

-----------------------------------------------------------------------------
(* create_snippet *)

\* Head of the loop over snippet["entities"]; after it, the payload is built.
create_snippet_for ==
    /\ pc = "snip_for"
    /\ IF snip.idx <= Len(snip.snippet.entities)
       THEN CallResolver(snip.snippet.entities[snip.idx], "snippet")
       ELSE pc' = "snip_create" /\ UNCHANGED <<goe, nres>>
    /\ UNCHANGED <<cache, inv, snip, media, ret, raised, nextId, ninv, faults,
                   issued, history>>
    /\ UNCHANGED auxVars

create_snippet_linked_KeepNone ==
    /\ pc = "goe_ret"
    /\ goe.caller = "snippet"
    /\ snip' = [snip EXCEPT
                  !.entities = Append(@, ret),
                  !.results = Append(@, ret),
                  !.idx = @ + 1]
    /\ pc' = "snip_for"
    /\ goe' = NoGoe
    /\ UNCHANGED <<cache, inv, media, ret, raised, nextId, ninv, nres, faults,
                   issued, history>>
    /\ UNCHANGED auxVars

\* Loop body after the resolver returned: keep the ID when it is not None.
create_snippet_linked ==
    /\ pc = "goe_ret"
    /\ goe.caller = "snippet"
    /\ snip' = [snip EXCEPT
                  !.entities = IF Truthy(ret) THEN Append(@, ret) ELSE @,
                  !.results = Append(@, ret),
                  !.idx = @ + 1]
    /\ pc' = "snip_for"
    /\ goe' = NoGoe
    /\ UNCHANGED <<cache, inv, media, ret, raised, nextId, ninv, nres, faults,
                   issued, history>>
    /\ UNCHANGED auxVars

\* pages.create of the note; only APIResponseError is handled.
create_snippet_create ==
    /\ pc = "snip_create"
    /\ issued' = [issued EXCEPT !.note = @ + 1]
    /\ LET request == [StoreCall EXCEPT !.op = "create", !.table = "notes",
                          !.status = "Inbox", !.relation = snip.entities,
                          !.source = snip.media_source,
                          !.props = OptionalProperties(snip.snippet.event_date),
                          !.values = OptionalValues(snip.snippet.event_date)]
       IN \/ /\ snip' = [snip EXCEPT !.calls =
                           Append(@, [request EXCEPT !.result = <<nextId>>])]
             /\ nextId' = nextId + 1
             /\ ret' = nextId
             /\ raised' = FALSE
             /\ UNCHANGED faults
          \/ \E e \in StoreErrors :
               /\ MayFail
               /\ faults' = faults + 1
               /\ snip' = [snip EXCEPT !.calls =
                             Append(@, [request EXCEPT !.outcome = e])]
               /\ ret' = None
               /\ raised' = (e \notin APIResponseError)
               /\ UNCHANGED nextId
    /\ pc' = "snip_ret"
    /\ UNCHANGED <<cache, inv, goe, media, ninv, nres, history>>
    /\ UNCHANGED auxVars

-----------------------------------------------------------------------------
(* create_media *)

create_media_author_NoAbort ==
    /\ pc = "goe_ret"
    /\ goe.caller = "media"
    /\ media' = [media EXCEPT !.entity_id = ret]
    /\ pc' = "media_create"
    /\ goe' = NoGoe
    /\ UNCHANGED <<cache, inv, snip, ret, raised, nextId, ninv, nres, faults,
                   issued, history>>
    /\ UNCHANGED auxVars

\* After the author was resolved: abort when there is no author entity.
create_media_author ==
    /\ pc = "goe_ret"
    /\ goe.caller = "media"
    /\ media' = [media EXCEPT !.entity_id = ret]
    /\ IF ~Truthy(ret)
       THEN ret' = None /\ pc' = "media_ret"
       ELSE pc' = "media_create" /\ UNCHANGED ret
    /\ goe' = NoGoe
    /\ UNCHANGED <<cache, inv, snip, raised, nextId, ninv, nres, faults, issued,
                   history>>
    /\ UNCHANGED auxVars

\* pages.create of the media record; after a failure control goes to onError.
MediaCreate(onError) ==
    /\ pc = "media_create"
    /\ issued' = [issued EXCEPT !.media = @ + 1]
    /\ LET request == [StoreCall EXCEPT !.op = "create", !.table = "media",
                          !.status = "Inbox", !.relation = <<media.entity_id>>]
       IN \/ /\ media' = [media EXCEPT
                            !.calls = Append(@, [request EXCEPT !.result = <<nextId>>]),
                            !.page_id = nextId, !.idx = 1]
             /\ nextId' = nextId + 1
             /\ pc' = "media_for"
             /\ UNCHANGED <<ret, faults>>
          \/ \E e \in StoreErrors :
               /\ MayFail
               /\ faults' = faults + 1
               /\ media' = [media EXCEPT
                              !.calls = Append(@, [request EXCEPT !.outcome = e])]
               /\ ret' = None
               /\ pc' = onError
               /\ UNCHANGED nextId
    /\ UNCHANGED <<cache, inv, goe, snip, raised, ninv, nres, history>>
    /\ UNCHANGED auxVars

create_media_create_Continue == MediaCreate("media_for")

create_media_create_Retry == MediaCreate("media_create")

\* Both handlers of the media create return None.
create_media_create == MediaCreate("media_ret")

create_media_for_AuthorAsSource ==
    /\ pc = "media_for"
    /\ IF media.idx <= media.data.nsnippets
       THEN /\ \E snippet \in NextSnippets :
                  CallSnippet(snippet, media.entity_id, "media")
            /\ UNCHANGED ret
       ELSE /\ ret' = media.page_id
            /\ pc' = "media_ret"
            /\ UNCHANGED snip
    /\ UNCHANGED <<cache, inv, goe, media, raised, nextId, ninv, nres, faults, issued,
                   history>>
    /\ UNCHANGED auxVars

\* Head of the loop over data["extracted_snippets"]; after it, return the ID.
create_media_for ==
    /\ pc = "media_for"
    /\ IF media.idx <= media.data.nsnippets
       THEN /\ \E snippet \in NextSnippets :
                  CallSnippet(snippet, media.page_id, "media")
            /\ UNCHANGED ret
       ELSE /\ ret' = media.page_id
            /\ pc' = "media_ret"
            /\ UNCHANGED snip
    /\ UNCHANGED <<cache, inv, goe, media, raised, nextId, ninv, nres, faults, issued,
                   history>>
    /\ UNCHANGED auxVars

\* create_snippet came back inside the try block of create_media.
create_media_snippet ==
    /\ pc = "snip_ret"
    /\ snip.caller = "media"
    /\ IF raised
       THEN /\ media' = [media EXCEPT !.attempts = Append(@, "raised")]
            /\ ret' = None
            /\ pc' = "media_ret"
       ELSE /\ media' = [media EXCEPT
                           !.attempts = Append(@, IF Truthy(ret) THEN "created"
                                                                 ELSE "failed"),
                           !.idx = @ + 1]
            /\ pc' = "media_for"
            /\ UNCHANGED ret
    /\ raised' = FALSE
    /\ snip' = NoSnip
    /\ UNCHANGED <<cache, inv, goe, nextId, ninv, nres, faults, issued, history>>
    /\ UNCHANGED auxVars

-----------------------------------------------------------------------------
(* The caller of the three operations *)

Begin(op) ==
    /\ pc = "idle"
    /\ ninv < MaxCalls
    /\ ninv' = ninv + 1
    /\ inv' = [op |-> op, state |-> "running", ret |-> None]
    /\ issued' = NoneIssued
    /\ UNCHANGED <<cache, ret, raised, nextId, faults, history>>
    /\ UNCHANGED auxVars

Invoke_get_or_create_entity ==
    /\ Begin("get_or_create_entity")
    /\ nres < MaxNames
    /\ \E name \in Names : CallResolver(name, "top")
    /\ UNCHANGED <<snip, media>>

Invoke_create_snippet ==
    /\ Begin("create_snippet")
    /\ \E snippet \in NextSnippets, media_source \in ExistingIds :
          CallSnippet(snippet, media_source, "top")
    /\ UNCHANGED <<goe, media, nres>>

Invoke_create_media ==
    /\ Begin("create_media")
    /\ nres < MaxNames
    /\ \E data \in Documents :
          /\ media' = [NoMedia EXCEPT !.data = data]
          /\ CallResolver(strip(data.channel_name), "media")
    /\ UNCHANGED snip

\* The top-level call returns to its caller, or raises into it; its
\* activation records are gone.
Return ==
    /\ \/ pc = "goe_ret" /\ goe.caller = "top"
       \/ pc = "snip_ret" /\ snip.caller = "top"
       \/ pc = "media_ret"
    /\ inv' = [inv EXCEPT !.state = IF raised THEN "raised" ELSE "returned",
                          !.ret = ret]
    /\ raised' = FALSE
    /\ pc' = "idle"
    /\ goe' = NoGoe
    /\ snip' = NoSnip
    /\ media' = NoMedia
    /\ ret' = None
    /\ UNCHANGED <<cache, nextId, ninv, nres, faults, issued, history>>
    /\ UNCHANGED auxVars

Next ==
    \/ Invoke_get_or_create_entity
    \/ Invoke_create_snippet
    \/ Invoke_create_media
    \/ get_or_create_entity
    \/ get_or_create_entity_query
    \/ get_or_create_entity_create
    \/ create_snippet_for
    \/ create_snippet_linked
    \/ create_snippet_create
    \/ create_media_author
    \/ create_media_create
    \/ create_media_for
    \/ create_media_snippet
    \/ Return

Spec == Init /\ [][Next]_vars

TypeOK ==
    /\ pc \in {"idle", "goe_call", "goe_query", "goe_create", "goe_ret",
               "snip_for", "snip_create", "snip_ret",
               "media_create", "media_for", "media_ret"}
    /\ \A n \in Names : cache[n] \in {Absent, None} \cup (1..(nextId - 1))
    /\ ninv \in 0..MaxCalls
    /\ faults \in 0..MaxFaults

-----------------------------------------------------------------------------
(* SpecRace: get_or_create_entity called from several threads.              *)
(*                                                                          *)
(* The threads share the functools.cache table.  Here the store is one that *)
(* keeps what it is given: it has no unique-name constraint, a lookup never *)
(* fails and returns the records created so far under the name, and only a  *)
(* create may fail.  A step of a thread is again one store call, with the   *)
(* code around it.                                                          *)

mainVars == <<pc, inv, goe, snip, media, ret, raised, nres, issued, history, mainpy>>

\* What the store answers to the query for a name.
StoredUnder(name) ==
    LET Named(r) == r.name = name
        records == SelectSeq(table, Named)
    IN [i \in 1..Len(records) |-> records[i].id]

\* The thread returns v from the wrapper.
ThreadReturn(t, v) ==
    thread' = [thread EXCEPT ![t] = [@ EXCEPT !.pc = "idle", !.ret = v]]

\* A thread calls get_or_create_entity(name).
Race_call(t) ==
    /\ thread[t].pc = "idle"
    /\ ninv < MaxCalls
    /\ ninv' = ninv + 1
    /\ \E name \in Names :
          thread' = [thread EXCEPT ![t] =
                        [pc |-> "goe_call", arg |-> name, name |-> name,
                         ret |-> None]]
    /\ overlapped' = (overlapped \/ \E u \in Threads \ {t} : thread[u].pc # "idle")
    /\ UNCHANGED <<cache, nextId, faults, table, text, built, mainVars>>

\* The cache wrapper, and on a miss the body up to its first store call.
Race_get_or_create_entity(t) ==
    /\ thread[t].pc = "goe_call"
    /\ IF CacheHit(thread[t].arg)
       THEN /\ ThreadReturn(t, cache[CacheKey(thread[t].arg)])
            /\ UNCHANGED cache
       ELSE IF strip(thread[t].arg) = <<>>
       THEN /\ cache' = [cache EXCEPT ![CacheKey(thread[t].arg)] = None]
            /\ ThreadReturn(t, None)
       ELSE /\ thread' = [thread EXCEPT ![t] =
                            [@ EXCEPT !.name = strip(thread[t].arg),
                                      !.pc = "goe_query"]]
            /\ UNCHANGED cache
    /\ UNCHANGED <<nextId, ninv, faults, table, overlapped, text, built, mainVars>>

\* data_sources.query, answered from the table.
Race_query(t) ==
    /\ thread[t].pc = "goe_query"
    /\ LET results == StoredUnder(thread[t].name)
       IN IF Found(results)
          THEN /\ cache' = [cache EXCEPT ![CacheKey(thread[t].arg)] =
                              FirstMatch(results)]
               /\ ThreadReturn(t, FirstMatch(results))
          ELSE /\ thread' = [thread EXCEPT ![t] = [@ EXCEPT !.pc = "goe_create"]]
               /\ UNCHANGED cache
    /\ UNCHANGED <<nextId, ninv, faults, table, overlapped, text, built, mainVars>>

\* pages.create of the entity record: the store appends it, or fails.
Race_create(t) ==
    /\ thread[t].pc = "goe_create"
    /\ \/ /\ table' = Append(table, [id |-> nextId,
                                     name |-> EntityProperties(thread[t].name).name])
          /\ nextId' = nextId + 1
          /\ cache' = [cache EXCEPT ![CacheKey(thread[t].arg)] = nextId]
          /\ ThreadReturn(t, nextId)
          /\ UNCHANGED faults
       \/ /\ MayFail
          /\ faults' = faults + 1
          /\ cache' = [cache EXCEPT ![CacheKey(thread[t].arg)] = None]
          /\ ThreadReturn(t, None)
          /\ UNCHANGED <<table, nextId>>
    /\ UNCHANGED <<ninv, overlapped, text, built, mainVars>>

RaceNext ==
    \E t \in Threads :
        \/ Race_call(t)
        \/ Race_get_or_create_entity(t)
        \/ Race_query(t)
        \/ Race_create(t)

SpecRace == Init /\ [][RaceNext]_vars

-----------------------------------------------------------------------------
(* SpecText: the texts of a document and what the payloads make of them.    *)
(*                                                                          *)
(* A text is a sequence of characters; the chunk size is ChunkSize in place *)
(* of 1900, so that texts of a few characters fall on both sides of it.     *)

Chars == {"a", "b"}

Texts == SeqsUpTo(Chars, MaxTextLen)

Min(a, b) == IF a < b THEN a ELSE b

\* range(start, stop, step), as a sequence.
RECURSIVE range(_, _, _)
range(start, stop, step) ==
    IF start >= stop THEN <<>> ELSE <<start>> \o range(start + step, stop, step)

\* s[i:j] for 0 <= i <= j: the end of the slice is clamped to len(s).
Slice(s, i, j) == SubSeq(s, i + 1, Min(j, Len(s)))

split_into_chunks_DropTail(t, chunk_size) ==
    LET starts == range(0, Len(t) - chunk_size + 1, chunk_size)
    IN [k \in 1..Len(starts) |-> Slice(t, starts[k], starts[k] + chunk_size)]

split_into_chunks(t, chunk_size) ==
    LET starts == range(0, Len(t), chunk_size)
    IN [k \in 1..Len(starts) |-> Slice(t, starts[k], starts[k] + chunk_size)]

create_code_blocks(chunks) ==
    [k \in 1..Len(chunks) |->
        [type |-> "code", content |-> chunks[k], language |-> "markdown"]]

prepare_summary_blocks(t) == create_code_blocks(split_into_chunks(t, ChunkSize))

\* The Context title of a note, and the children of its create call: the
\* context as it is, and no children key.
NoteTitle(context) == context

NoteChildren(context) == <<>>

InitText ==
    /\ InitMain
    /\ InitRace
    /\ text \in Texts
    /\ built = NoBuilt

\* create_media builds the children of the media page from full_summary.
Text_prepare_summary_blocks ==
    /\ built.kind = "none"
    /\ built' = [kind |-> "summary", title |-> <<>>,
                 children |-> prepare_summary_blocks(text)]
    /\ UNCHANGED <<cache, nextId, ninv, faults, thread, table, overlapped, text,
                   mainVars>>

\* create_snippet builds the payload of the note from snippet["context"].
Text_create_snippet ==
    /\ built.kind = "none"
    /\ built' = [kind |-> "note", title |-> NoteTitle(text),
                 children |-> NoteChildren(text)]
    /\ UNCHANGED <<cache, nextId, ninv, faults, thread, table, overlapped, text,
                   mainVars>>

TextNext ==
    \/ Text_prepare_summary_blocks
    \/ Text_create_snippet

SpecText == InitText /\ [][TextNext]_vars

-----------------------------------------------------------------------------
(* SpecEquiv: the module-level functions of main.py beside the methods of   *)
(* one NotionScript instance.                                               *)
(*                                                                          *)
(* The instance takes a step of Spec; main.py then takes its step at the    *)
(* point it has reached itself, on the same input and with the answer the   *)
(* store gave to the instance's call at that position.  mainpy holds the    *)
(* process-wide cache of main.py, its control point, its activation records *)
(* with the store calls it issued, and what it returned.                    *)

\* What main.py has a counterpart of in the state of the instance.
NotionScript ==
    [cache |-> cache, pc |-> pc, goe |-> goe, snip |-> snip, media |-> media,
     ret |-> ret, raised |-> raised,
     result |-> [state |-> inv.state, ret |-> inv.ret]]

InStep == mainpy = NotionScript

\* The request, answered as the store answered the call at the same position
\* of the instance's log.
Answered(request, log, mine) ==
    [request EXCEPT !.outcome = log[Len(mine) + 1].outcome,
                    !.result = log[Len(mine) + 1].result]

HasAnswer(log, mine) == Len(log) > Len(mine)

\* The store call raised instead of returning a response.
Raises(call) == call.outcome # "ok"

\* functools.cache on a module-level function keys an entry by the argument.
main_CacheKey_Stripped(arg) == strip(arg)

main_CacheKey(arg) == arg

main_EntityProperties(name) == [name |-> name, status |-> "Inbox"]

main_OptionalProperties(event_date) ==
    (IF TruthyStr(event_date.human_readable) THEN {"Event Date"} ELSE {})
    \cup (IF TruthyStr(event_date.date_start_iso) THEN {"Start Date"} ELSE {})
    \cup (IF TruthyStr(event_date.date_end_iso) THEN {"End Date"} ELSE {})

main_OptionalValues(event_date) ==
    [p \in main_OptionalProperties(event_date) |->
        CASE p = "Event Date" -> event_date.human_readable
          [] p = "Start Date" -> event_date.date_start_iso
          [] p = "End Date" -> event_date.date_end_iso]

main_CallResolver(arg, caller) ==
    [arg |-> arg, name |-> arg, caller |-> caller, calls |-> <<>>]

main_CallSnippet(snippet, media_source, caller) ==
    [snippet |-> snippet, media_source |-> media_source, entities |-> <<>>,
     idx |-> 1, caller |-> caller, calls |-> <<>>, results |-> <<>>]

\* A step of main.py: it is behind the instance, and nothing else moves.
MainStep(new) ==
    /\ ~InStep
    /\ mainpy' = new
    /\ UNCHANGED <<cache, pc, inv, goe, snip, media, ret, raised, nextId, ninv,
                   nres, faults, issued, history, thread, table, overlapped,
                   text, built>>

main_Invoke_get_or_create_entity ==
    /\ mainpy.pc = "idle"
    /\ inv.op = "get_or_create_entity"
    /\ MainStep([mainpy EXCEPT
                    !.result = [state |-> "running", ret |-> None],
                    !.goe = main_CallResolver(goe.arg, "top"),
                    !.pc = "goe_call"])

main_Invoke_create_snippet ==
    /\ mainpy.pc = "idle"
    /\ inv.op = "create_snippet"
    /\ MainStep([mainpy EXCEPT
                    !.result = [state |-> "running", ret |-> None],
                    !.snip = main_CallSnippet(snip.snippet, snip.media_source, "top"),
                    !.pc = "snip_for"])

main_Invoke_create_media ==
    /\ mainpy.pc = "idle"
    /\ inv.op = "create_media"
    /\ MainStep([mainpy EXCEPT
                    !.result = [state |-> "running", ret |-> None],
                    !.media = [NoMedia EXCEPT !.data = media.data],
                    !.goe = main_CallResolver(strip(media.data.channel_name), "media"),
                    !.pc = "goe_call"])

\* The cache wrapper, and on a miss the body up to its first store call.
main_get_or_create_entity ==
    /\ mainpy.pc = "goe_call"
    /\ LET arg == mainpy.goe.arg
           key == main_CacheKey(arg)
       IN MainStep(IF mainpy.cache[key] # Absent
                   THEN [mainpy EXCEPT !.ret = mainpy.cache[key], !.pc = "goe_ret"]
                   ELSE IF strip(arg) = <<>>
                   THEN [mainpy EXCEPT !.cache[key] = None, !.ret = None,
                                       !.pc = "goe_ret"]
                   ELSE [mainpy EXCEPT !.goe.name = strip(arg), !.pc = "goe_query"])

\* NOTION_CLIENT.data_sources.query on config.ENTITIES_DB_ID.
main_get_or_create_entity_query ==
    /\ mainpy.pc = "goe_query"
    /\ HasAnswer(goe.calls, mainpy.goe.calls)
    /\ LET request == [StoreCall EXCEPT !.op = "query", !.table = "entities",
                          !.name = mainpy.goe.name]
           call == Answered(request, goe.calls, mainpy.goe.calls)
           logged == [mainpy EXCEPT !.goe.calls = Append(@, call)]
       IN MainStep(IF ~Raises(call) /\ Found(call.result)
                   THEN [logged EXCEPT
                            !.cache[main_CacheKey(mainpy.goe.arg)] = FirstMatch(call.result),
                            !.ret = FirstMatch(call.result),
                            !.pc = "goe_ret"]
                   ELSE [logged EXCEPT !.pc = "goe_create"])

\* NOTION_CLIENT.pages.create of the entity record.
main_get_or_create_entity_create ==
    /\ mainpy.pc = "goe_create"
    /\ HasAnswer(goe.calls, mainpy.goe.calls)
    /\ LET request == [StoreCall EXCEPT !.op = "create", !.table = "entities",
                          !.name = main_EntityProperties(mainpy.goe.name).name,
                          !.status = main_EntityProperties(mainpy.goe.name).status]
           call == Answered(request, goe.calls, mainpy.goe.calls)
           new_id == IF Raises(call) THEN None ELSE call.result[1]
       IN MainStep([mainpy EXCEPT
                       !.goe.calls = Append(@, call),
                       !.cache[main_CacheKey(mainpy.goe.arg)] = new_id,
                       !.ret = new_id,
                       !.pc = "goe_ret"])

main_create_snippet_for ==
    /\ mainpy.pc = "snip_for"
    /\ MainStep(IF mainpy.snip.idx <= Len(mainpy.snip.snippet.entities)
                THEN [mainpy EXCEPT
                         !.goe = main_CallResolver(
                                    mainpy.snip.snippet.entities[mainpy.snip.idx],
                                    "snippet"),
                         !.pc = "goe_call"]
                ELSE [mainpy EXCEPT !.pc = "snip_create"])

main_create_snippet_linked ==
    /\ mainpy.pc = "goe_ret"
    /\ mainpy.goe.caller = "snippet"
    /\ MainStep([mainpy EXCEPT
                    !.snip.entities = IF Truthy(mainpy.ret)
                                      THEN Append(@, mainpy.ret) ELSE @,
                    !.snip.results = Append(@, mainpy.ret),
                    !.snip.idx = @ + 1,
                    !.goe = NoGoe,
                    !.pc = "snip_for"])

\* NOTION_CLIENT.pages.create of the note; only APIResponseError is handled.
main_create_snippet_create ==
    /\ mainpy.pc = "snip_create"
    /\ HasAnswer(snip.calls, mainpy.snip.calls)
    /\ LET request == [StoreCall EXCEPT !.op = "create", !.table = "notes",
                          !.status = "Inbox", !.relation = mainpy.snip.entities,
                          !.source = mainpy.snip.media_source,
                          !.props = main_OptionalProperties(mainpy.snip.snippet.event_date),
                          !.values = main_OptionalValues(mainpy.snip.snippet.event_date)]
           call == Answered(request, snip.calls, mainpy.snip.calls)
       IN MainStep([mainpy EXCEPT
                       !.snip.calls = Append(@, call),
                       !.ret = IF Raises(call) THEN None ELSE call.result[1],
                       !.raised = Raises(call) /\ call.outcome \notin APIResponseError,
                       !.pc = "snip_ret"])

main_create_media_author ==
    /\ mainpy.pc = "goe_ret"
    /\ mainpy.goe.caller = "media"
    /\ MainStep([mainpy EXCEPT
                    !.media.entity_id = mainpy.ret,
                    !.ret = IF Truthy(mainpy.ret) THEN @ ELSE None,
                    !.pc = IF Truthy(mainpy.ret) THEN "media_create" ELSE "media_ret",
                    !.goe = NoGoe])

\* NOTION_CLIENT.pages.create of the media record; both handlers return None.
main_create_media_create ==
    /\ mainpy.pc = "media_create"
    /\ HasAnswer(media.calls, mainpy.media.calls)
    /\ LET request == [StoreCall EXCEPT !.op = "create", !.table = "media",
                          !.status = "Inbox",
                          !.relation = <<mainpy.media.entity_id>>]
           call == Answered(request, media.calls, mainpy.media.calls)
           logged == [mainpy EXCEPT !.media.calls = Append(@, call)]
       IN MainStep(IF Raises(call)
                   THEN [logged EXCEPT !.ret = None, !.pc = "media_ret"]
                   ELSE [logged EXCEPT !.media.page_id = call.result[1],
                                       !.media.idx = 1,
                                       !.pc = "media_for"])

\* Head of the loop over data["extracted_snippets"]: the next snippet of the
\* document is the one the instance was given.
main_create_media_for ==
    /\ mainpy.pc = "media_for"
    /\ MainStep(IF mainpy.media.idx <= mainpy.media.data.nsnippets
                THEN [mainpy EXCEPT
                         !.snip = main_CallSnippet(snip.snippet,
                                                   mainpy.media.page_id, "media"),
                         !.pc = "snip_for"]
                ELSE [mainpy EXCEPT !.ret = mainpy.media.page_id,
                                    !.pc = "media_ret"])

main_create_media_snippet ==
    /\ mainpy.pc = "snip_ret"
    /\ mainpy.snip.caller = "media"
    /\ MainStep(IF mainpy.raised
                THEN [mainpy EXCEPT
                         !.media.attempts = Append(@, "raised"),
                         !.ret = None,
                         !.raised = FALSE,
                         !.snip = NoSnip,
                         !.pc = "media_ret"]
                ELSE [mainpy EXCEPT
                         !.media.attempts =
                             Append(@, IF Truthy(mainpy.ret) THEN "created"
                                                             ELSE "failed"),
                         !.media.idx = @ + 1,
                         !.raised = FALSE,
                         !.snip = NoSnip,
                         !.pc = "media_for"])

\* The top-level call of main.py returns to its caller, or raises into it.
main_Return ==
    /\ \/ mainpy.pc = "goe_ret" /\ mainpy.goe.caller = "top"
       \/ mainpy.pc = "snip_ret" /\ mainpy.snip.caller = "top"
       \/ mainpy.pc = "media_ret"
    /\ MainStep([mainpy EXCEPT
                    !.result = [state |-> IF mainpy.raised THEN "raised"
                                                           ELSE "returned",
                                ret |-> mainpy.ret],
                    !.raised = FALSE,
                    !.pc = "idle",
                    !.goe = NoGoe,
                    !.snip = NoSnip,
                    !.media = NoMedia,
                    !.ret = None])

MainNext ==
    \/ main_Invoke_get_or_create_entity
    \/ main_Invoke_create_snippet
    \/ main_Invoke_create_media
    \/ main_get_or_create_entity
    \/ main_get_or_create_entity_query
    \/ main_get_or_create_entity_create
    \/ main_create_snippet_for
    \/ main_create_snippet_linked
    \/ main_create_snippet_create
    \/ main_create_media_author
    \/ main_create_media_create
    \/ main_create_media_for
    \/ main_create_media_snippet
    \/ main_Return

\* The instance moves when main.py has caught up with it.
NotionNext == InStep /\ Next

EquivNext ==
    \/ NotionNext
    \/ MainNext

SpecEquiv == Init /\ [][EquivNext]_vars

-----------------------------------------------------------------------------
(* Properties *)

\* The claims state trimming on their own terms.
IsBlank(n) == \A i \in 1..Len(n) : n[i] \in Whitespace

Trimmed(n) ==
    IF IsBlank(n) THEN <<>>
    ELSE LET first == CHOOSE i \in 1..Len(n) :
                         /\ n[i] \notin Whitespace
                         /\ \A j \in 1..(i - 1) : n[j] \in Whitespace
             last == CHOOSE i \in 1..Len(n) :
                         /\ n[i] \notin Whitespace
                         /\ \A j \in (i + 1)..Len(n) : n[j] \in Whitespace
         IN SubSeq(n, first, last)

RECURSIVE SumOver(_, _)
SumOver(f, S) ==
    IF S = {} THEN 0
    ELSE LET x == CHOOSE y \in S : TRUE IN f[x] + SumOver(f, S \ {x})

Failed(call) == call.outcome # "ok"

\* C1: calls of get_or_create_entity with one and the same argument issue, in
\* total, one lookup and at most one create (none for a blank name); every
\* call after the first is answered from the cache, and all of them return
\* the same value.
IdempotentResolution ==
    \A n \in Names :
        /\ queriesFor[n] <= 1
        /\ createsFor[n] <= queriesFor[n]
        /\ Cardinality(returned[n]) <= 1
        /\ resolved[n] >= 1 =>
              /\ returned[n] = {cache[n]}
              /\ ~IsBlank(n) => queriesFor[n] = 1
        /\ (pc = "goe_ret" /\ goe.arg = n /\ resolved[n] = 2) => goe.calls = <<>>

IdempotentResolutionWitness ==
    \E n \in Names :
        /\ resolved[n] = 2
        /\ queriesFor[n] = 1
        /\ createsFor[n] = 1
        /\ returned[n] = {cache[n]}
        /\ cache[n] # None

\* C2: in a run, at most one entity create call is issued per distinct
\* trimmed name (compared case-sensitively).
AtMostOneCreatePerName ==
    \A n \in Names :
        SumOver(createsFor, { m \in Names : Trimmed(m) = Trimmed(n) }) <= 1

\* C3: two arguments that trim to the same non-empty name share one cache
\* entry: once both have been resolved, one lookup has been issued for them.
NormalizedMemoKey ==
    \A n, m \in Names :
        (/\ n # m
         /\ Trimmed(n) = Trimmed(m)
         /\ ~IsBlank(n)
         /\ resolved[n] >= 1
         /\ resolved[m] >= 1)
        => queriesFor[n] + queriesFor[m] = 1

\* C4: for an empty or whitespace-only name get_or_create_entity returns None
\* and issues neither a lookup nor a create.
EmptyNameShortCircuit ==
    \A n \in Names :
        IsBlank(n) =>
            /\ queriesFor[n] = 0
            /\ createsFor[n] = 0
            /\ returned[n] \subseteq {None}
            /\ (pc \in {"goe_query", "goe_create"} => goe.arg # n)

EmptyNameShortCircuitWitness ==
    /\ pc = "goe_ret"
    /\ goe.arg # <<>>
    /\ IsBlank(goe.arg)
    /\ ret = None
    /\ goe.calls = <<>>

\* C5: on a cache miss for a non-empty name, when the lookup returns one or
\* more records the result is the ID of the first record and no entity create
\* call is issued.
LookupFirstMatchWins ==
    (/\ pc = "goe_ret"
     /\ goe.calls # <<>>
     /\ goe.calls[1].result # <<>>)
    => /\ goe.calls[1].op = "query"
       /\ goe.calls[1].name = Trimmed(goe.arg)
       /\ ret = goe.calls[1].result[1]
       /\ cache[goe.arg] = ret
       /\ Len(goe.calls) = 1

LookupFirstMatchWinsWitness ==
    /\ pc = "goe_ret"
    /\ goe.calls # <<>>
    /\ Len(goe.calls[1].result) = 2
    /\ ret = goe.calls[1].result[1]
    /\ ret # goe.calls[1].result[2]

\* C6: on a cache miss for a non-empty name, when the lookup returns no match
\* or fails, exactly one entity create call is issued, with the trimmed name
\* and status Inbox; the result is the new ID when the create succeeds and
\* None, without an exception, when it fails.
CreationFallback ==
    (/\ pc = "goe_ret"
     /\ goe.calls # <<>>
     /\ goe.calls[1].result = <<>>)
    => /\ Len(goe.calls) = 2
       /\ goe.calls[2].op = "create"
       /\ goe.calls[2].table = "entities"
       /\ goe.calls[2].name = Trimmed(goe.arg)
       /\ goe.calls[2].status = "Inbox"
       /\ ret = IF Failed(goe.calls[2]) THEN None ELSE goe.calls[2].result[1]
       /\ ~raised

CreationFallbackWitness ==
    /\ pc = "goe_ret"
    /\ Len(goe.calls) = 2
    /\ Failed(goe.calls[1])
    /\ Failed(goe.calls[2])
    /\ goe.arg # Trimmed(goe.arg)
    /\ ret = None

\* C7: when the resolution of the author name returns None, create_media
\* returns None and issues no media create call and no note create call.
AuthorFailureBlocksMedia ==
    (pc = "media_ret" /\ media.entity_id = None)
    => /\ ret = None
       /\ issued.media = 0
       /\ issued.note = 0
       /\ media.calls = <<>>

AuthorFailureBlocksMediaWitness ==
    /\ pc = "media_ret"
    /\ media.entity_id = None
    /\ issued.entity = 1
    /\ media.data.nsnippets > 0

\* C8: once the media record exists, the failure of a note creation, of any
\* error class, neither aborts the remaining snippets nor changes the result:
\* create_media returns the media ID and every snippet has been attempted.
PartialFailureIsolation ==
    (pc = "media_ret" /\ media.page_id # None)
    => /\ ret = media.page_id
       /\ Len(media.attempts) = media.data.nsnippets
       /\ \A k \in 1..Len(media.attempts) : media.attempts[k] # "raised"

\* C9: a note create call that fails with a validation error is retried
\* exactly once, without Start Date and End Date and otherwise unchanged; no
\* other failure is retried and a snippet never gets more than two calls.
RetryOnValidationError ==
    (pc = "snip_ret")
    => /\ Len(snip.calls) \in 1..2
       /\ (snip.calls[1].outcome = "validation_error") <=> (Len(snip.calls) = 2)
       /\ Len(snip.calls) = 2 =>
             snip.calls[2] =
                [snip.calls[1] EXCEPT
                    !.props = @ \ {"Start Date", "End Date"},
                    !.outcome = snip.calls[2].outcome,
                    !.result = snip.calls[2].result]

\* C10: whatever error the store raises on the note create call,
\* create_snippet returns None and no exception leaves it.
NoteCreationNeverRaises ==
    (pc = "snip_ret")
    => /\ ~raised
       /\ Failed(snip.calls[Len(snip.calls)]) => ret = None

\* C11: when the media create call fails, with a typed API error or any other
\* error, create_media returns None, and it issues no note create call and
\* resolves no further entity: the author's lookup and create are the only
\* entity calls of the invocation and no snippet is started.
MediaCreationFailure ==
    (/\ pc = "media_ret"
     /\ media.calls # <<>>
     /\ Failed(media.calls[1]))
    => /\ ret = None
       /\ media.page_id = None
       /\ Len(media.calls) = 1
       /\ issued.note = 0
       /\ issued.query <= 1
       /\ issued.entity <= 1
       /\ media.attempts = <<>>
       /\ snip = NoSnip

MediaCreationFailureWitness ==
    /\ pc = "media_ret"
    /\ media.calls # <<>>
    /\ media.calls[1].outcome \notin APIResponseError
    /\ Failed(media.calls[1])
    /\ media.data.nsnippets > 0
    /\ ret = None

\* C12: once the media record exists, create_media invokes create_snippet
\* once per snippet, in document order and one after the other: the snippet
\* in progress is the one after those already completed, and when
\* create_media returns every snippet has had its one invocation.
NoteOrdering ==
    /\ snip.caller = "media" =>
          /\ media.idx = Len(media.attempts) + 1
          /\ media.idx <= media.data.nsnippets
          /\ snip.media_source = media.page_id
    /\ (pc = "media_ret" /\ media.page_id # None) =>
          Len(media.attempts) = media.data.nsnippets

\* C13: a create_media invocation whose author was resolved issues exactly
\* one media create call, after the author resolution has completed and
\* before any note create call; no invocation issues a second media create
\* call, and the media call is a create, never an update.
MediaCreatedOnce ==
    inv.op = "create_media" =>
        /\ issued.media <= 1
        /\ issued.note > 0 => issued.media = 1
        /\ goe.caller = "media" => issued.media = 0 /\ issued.note = 0
        /\ pc = "media_create" =>
              /\ issued.media = 0
              /\ issued.note = 0
              /\ goe = NoGoe
              /\ media.entity_id # None
              /\ media.entity_id = cache[Trimmed(media.data.channel_name)]
        /\ (pc = "media_ret" /\ media.entity_id # None) =>
              /\ issued.media = 1
              /\ Len(media.calls) = 1
        /\ \A i \in 1..Len(media.calls) :
              /\ media.calls[i].op = "create"
              /\ media.calls[i].table = "media"

MediaCreatedOnceWitness ==
    /\ pc = "media_ret"
    /\ issued.media = 1
    /\ issued.note = 2
    /\ issued.entity >= 1
    /\ ret = media.page_id
    /\ ret # None

NotNone(v) == v # None

\* C14: the Entities relation of a note create call is the sequence of the
\* results of resolving snippet.entities, in order, without the None results;
\* a name that resolves to None is left out and the note create call is
\* issued all the same.
EntityReferences ==
    pc = "snip_ret" =>
        /\ snip.calls # <<>>
        /\ Len(snip.results) = Len(snip.snippet.entities)
        /\ \A i \in 1..Len(snip.results) :
              snip.results[i] = cache[snip.snippet.entities[i]]
        /\ \A i \in 1..Len(snip.calls) :
              /\ snip.calls[i].table = "notes"
              /\ snip.calls[i].relation = SelectSeq(snip.results, NotNone)

EntityReferencesWitness ==
    /\ pc = "snip_ret"
    /\ Len(snip.results) = 2
    /\ snip.results[1] = None
    /\ snip.results[2] # None
    /\ snip.calls[1].relation = <<snip.results[2]>>

Duplicates ==
    \E i, j \in 1..Len(table) : i < j /\ table[i].name = table[j].name

\* C15: as long as the calls of the resolver follow one another, against a
\* store that returns the records created before and whose lookups do not
\* fail, no two entity records with one name come to exist; two calls for a
\* name not yet cached that overlap can each miss, each find nothing and each
\* create a record, which is the state the witness reaches.
SequentialNoDuplicate == ~overlapped => ~Duplicates

ConcurrentDuplicate ==
    /\ overlapped
    /\ Duplicates
    /\ \E t, u \in Threads :
          /\ t # u
          /\ thread[t].pc = "idle"
          /\ thread[u].pc = "idle"
          /\ thread[t].arg = thread[u].arg
          /\ thread[t].ret # thread[u].ret
          /\ thread[t].ret # None
          /\ thread[u].ret # None

\* Of the date strings the snippets carry: the spellings of "null", and the
\* strings that are a calendar date written YYYY-MM-DD.
IsNullWord(s) == s \in {"null", "Null", "NULL"}

ValidIsoDate(s) == s \in {"2024-05-01", "2024-05-02"}

Present(s) == s # NoneStr /\ s # ""

\* The first note create call of the current create_snippet.
NoteCall == snip.calls[1]

\* C16: the note create payload has Start Date (End Date) exactly when
\* date_start_iso (date_end_iso) is present, is not "null" in any case and is a
\* valid YYYY-MM-DD calendar date, and then carries the value verbatim.
DateValidation ==
    (pc = "snip_ret")
    => LET d == snip.snippet.event_date
           Kept(s) == Present(s) /\ ~IsNullWord(s) /\ ValidIsoDate(s)
       IN /\ ("Start Date" \in NoteCall.props) <=> Kept(d.date_start_iso)
          /\ ("End Date" \in NoteCall.props) <=> Kept(d.date_end_iso)
          /\ "Start Date" \in NoteCall.props
                => NoteCall.values["Start Date"] = d.date_start_iso
          /\ "End Date" \in NoteCall.props
                => NoteCall.values["End Date"] = d.date_end_iso

\* C17: the note create payload has Event Date exactly when human_readable is
\* present and is not the string "null".
HumanReadableDate ==
    (pc = "snip_ret")
    => LET h == snip.snippet.event_date.human_readable
       IN ("Event Date" \in NoteCall.props) <=> (Present(h) /\ h # "null")

\* The contents of a list of blocks, one after the other.
RECURSIVE Concat(_)
Concat(blocks) ==
    IF blocks = <<>> THEN <<>> ELSE Head(blocks).content \o Concat(Tail(blocks))

CeilDiv(a, b) == (a + b - 1) \div b

\* C18: a context no longer than the chunk size is the title as it is, with no
\* children; a longer one gives a title that begins with its first chunk-size
\* characters and is not the context itself, and children of at most
\* chunk-size characters each whose contents together are the context.
TitleTruncation ==
    (built.kind = "note")
    => IF Len(text) <= ChunkSize
       THEN built.title = text /\ built.children = <<>>
       ELSE /\ Len(built.title) > ChunkSize
            /\ SubSeq(built.title, 1, ChunkSize) = SubSeq(text, 1, ChunkSize)
            /\ built.title # text
            /\ built.children # <<>>
            /\ \A k \in 1..Len(built.children) :
                  Len(built.children[k].content) <= ChunkSize
            /\ Concat(built.children) = text

\* C19: the blocks of a summary of length L are ceil(L / chunk size) in number
\* (none for L = 0), each but the last has chunk-size characters, the last is
\* not empty, and their contents in order are the summary.
ChunkingRoundTrip ==
    (built.kind = "summary")
    => LET n == Len(built.children)
       IN /\ n = CeilDiv(Len(text), ChunkSize)
          /\ \A k \in 1..n :
                /\ built.children[k].type = "code"
                /\ k < n => Len(built.children[k].content) = ChunkSize
                /\ k = n => Len(built.children[k].content) \in 1..ChunkSize
          /\ Concat(built.children) = text

ChunkingRoundTripWitness ==
    /\ built.kind = "summary"
    /\ Len(text) > ChunkSize
    /\ Len(text) % ChunkSize # 0
    /\ Len(built.children) >= 2
    /\ Len(built.children[Len(built.children)].content) < ChunkSize
    /\ Concat(built.children) = text

\* C20: once get_or_create_entity(n) has returned None for a non-blank n (its
\* lookup found nothing or failed and its create failed), every later call
\* with the same argument returns None in one step of the wrapper, issuing no
\* store call whatever the store would now answer; and an entry of the cache,
\* once set, is never changed.
FailedResolutionMemoized ==
    [][ /\ \A n \in Names : cache[n] # Absent => cache'[n] = cache[n]
        /\ ( /\ pc = "goe_call"
             /\ ~IsBlank(goe.arg)
             /\ None \in returned[goe.arg] )
           => /\ pc' = "goe_ret"
              /\ ret' = None
              /\ issued' = issued
              /\ queriesFor' = queriesFor
              /\ createsFor' = createsFor
              /\ goe'.calls = <<>> ]_vars

FailedResolutionMemoizedWitness ==
    /\ pc = "goe_ret"
    /\ ~IsBlank(goe.arg)
    /\ resolved[goe.arg] = 2
    /\ queriesFor[goe.arg] = 1
    /\ createsFor[goe.arg] = 1
    /\ returned[goe.arg] = {None}
    /\ cache[goe.arg] = None
    /\ goe.calls = <<>>
    /\ ret = None

\* C21: when create_media returns, a media create call that succeeded means
\* the call returns the ID of the created media record; a return of None
\* means no media record was created by the call.
NullReturnMeansNoMedia ==
    (pc = "media_ret")
    => /\ media.page_id # None => ret = media.page_id
       /\ ret = None => \A k \in 1..Len(media.calls) : Failed(media.calls[k])

\* The IDs the resolver has memoized so far.
MemoizedIds == { cache[n] : n \in Names } \ {None, Absent}

Elems(s) == { s[i] : i \in 1..Len(s) }

\* C22: every note create call of a create_media invocation has as Source the
\* one media ID that the media create call of that invocation returned; every
\* media create call has one Author/Creator ID, and it is not None; and every
\* ID in an Author/Creator or Entities relation is one the store returned
\* before from an entity lookup or an entity create of this run.  The last
\* part is stated in two halves: the IDs in the relations are memoized IDs,
\* and an ID gets memoized only in the step in which the store returns it from
\* a call on the entities table.
ReferentialIntegrity ==
    /\ [] /\ \A k \in 1..Len(media.calls) :
                /\ media.calls[k].table = "media"
                /\ Len(media.calls[k].relation) = 1
                /\ media.calls[k].relation[1] # None
                /\ media.calls[k].relation[1] \in MemoizedIds
          /\ \A i \in 1..Len(snip.calls) :
                /\ Elems(snip.calls[i].relation) \subseteq MemoizedIds
                /\ snip.caller = "media"
                      => /\ media.page_id # None
                         /\ snip.calls[i].source = media.page_id
                         /\ media.calls # <<>>
                         /\ media.calls[Len(media.calls)].result = <<media.page_id>>
    /\ [][ \A n \in Names :
              (cache'[n] # cache[n] /\ cache'[n] # None)
              => /\ pc \in {"goe_query", "goe_create"}
                 /\ goe'.calls # <<>>
                 /\ LET answer == goe'.calls[Len(goe'.calls)]
                    IN /\ Len(goe'.calls) = Len(goe.calls) + 1
                       /\ answer.table = "entities"
                       /\ answer.outcome = "ok"
                       /\ cache'[n] \in Elems(answer.result) ]_vars

ReferentialIntegrityWitness ==
    /\ pc = "snip_ret"
    /\ snip.caller = "media"
    /\ snip.calls[1].outcome = "ok"
    /\ snip.calls[1].source = media.page_id
    /\ media.calls[1].result = <<media.page_id>>
    /\ media.calls[1].relation = <<media.entity_id>>
    /\ snip.calls[1].relation # <<>>
    /\ snip.calls[1].relation[1] # media.entity_id

\* C23: run on the same input against the same store answers, starting from
\* an empty cache, the functions of main.py and the methods of one
\* NotionScript instance stay together: main.py always has a step to take
\* when it is behind, and each of its steps brings it to the state of the
\* instance, with the same store calls and payloads logged, the same cache
\* and the same values returned.
VariantsEquivalent ==
    /\ [](InStep \/ ENABLED MainNext)
    /\ [][mainpy' # mainpy => mainpy' = NotionScript']_vars

VariantsEquivalentWitness ==
    /\ InStep
    /\ mainpy.pc = "media_ret"
    /\ mainpy.ret # None
    /\ mainpy.ret = mainpy.media.page_id
    /\ Len(mainpy.media.calls) = 1
    /\ Len(mainpy.media.attempts) = 2
    /\ mainpy.media.attempts[1] = "created"
    /\ \E n \in Names : mainpy.cache[n] \notin {None, Absent}

====
